---- MODULE Spec2Model ----
(***************************************************************************)
(* Model of the Spam Filter Manager backend (Dragon-lang-afk/plugin):      *)
(*   - routes/auth        src/unnamed/part_002  (token issuance, refresh,  *)
(*                                               logout, own tokenStore)   *)
(*   - middleware/auth    src/backend/middleware/auth.js (authenticateToken *)
(*                                               with its own tokenStore)  *)
(*   - routes/spamRules   src/unnamed/part_003  (List, Add, Remove, Bulk)  *)
(*   - adapters/plesk     src/unnamed/part_001  (Store Adapter)            *)
(*   - utils/validators   src/backend/utils/logger.js:98-319               *)
(* Time is Date.now() in milliseconds.  Strings that the code inspects     *)
(* character by character (list entries) are sequences of one-character    *)
(* strings; strings that are only compared (mailboxes) are TLA+ strings.   *)
(***************************************************************************)
EXTENDS Integers, Sequences, FiniteSets, TLC

VARIABLES
    now,          \* Date.now(), milliseconds
    advances,     \* number of clock advances so far (bounds the run)
    tokenStore,   \* part_002:12  registry written by the auth routes
    mwTokenStore, \* auth.js:5    registry read by authenticateToken
    issuedAt,     \* history: token value -> time it was last issued
    revoked,      \* history: token values passed to a logout that found them
    prevStore,    \* history: tokenStore as it was before the last request
    resp,         \* the last auth request and its response
    rules,        \* the filtering engine's lists: mailbox -> listType -> entries
    prevRules,    \* history: rules as they were before the last spam-rules request
    rresp,        \* the last spam-rules request and its response
    logged,       \* the logger.warn record of an ownership denial in that request
    candidate,    \* the argument of a call of validateSpamEntry
    verdict,      \* what the call returned
    rateNow,      \* Date.now() as the rate limiter reads it
    userRequests, \* the limiter's Map: user id -> the times it has recorded
    admitted,     \* history: every request the limiter passed on, in order
    hits,         \* the number of requests the limiter has handled
    rateResp,     \* the last request to the limiter and its outcome
    inflight,     \* the spam-rules requests being handled concurrently, by slot
    lastCall      \* history: the last addSpamRule/removeSpamRule invocation

authVars == <<now, advances, tokenStore, mwTokenStore, issuedAt, revoked, prevStore, resp>>

ruleVars == <<rules, prevRules, rresp, logged>>

valVars == <<candidate, verdict>>

rateVars == <<rateNow, userRequests, admitted, hits, rateResp>>

raceVars == <<inflight, lastCall>>

vars == <<now, advances, tokenStore, mwTokenStore, issuedAt, revoked, prevStore, resp,
          rules, prevRules, rresp, logged, candidate, verdict,
          rateNow, userRequests, admitted, hits, rateResp, inflight, lastCall>>

----------------------------------------------------------------------------
(* Bounds of the model *)

MaxAdvances == 2
MaxIssued == 2
MaxOps == 2
MaxParts == 2
MaxClock == 4
MaxHits == 5
MaxInflight == 2

(* The arguments the limiter is made with (the defaults are 50 requests    *)
(* per 15 * 60 * 1000 ms).                                                 *)
maxRequests == 2
windowMs == 2

(* Clock steps: one millisecond (the same second) and a full token lifetime. *)
Delays == {1, 24 * 60 * 60 * 1000}

Mailboxes == {"a@x.com", "b@x.com"}
NotAnEmail == "nobody"
MailboxInputs == Mailboxes \cup {NotAnEmail}

(* Request bodies of the two authentication routes: well-formed ones for   *)
(* each mailbox, and one for each way a body can be rejected.              *)
PleskSessionRequests ==
    {[sessionId |-> "sess", mailbox |-> m] : m \in MailboxInputs}
        \cup {[sessionId |-> "", mailbox |-> "a@x.com"]}

MailboxRequests ==
    {[email |-> m, password |-> "pw", mailbox |-> m] : m \in MailboxInputs}
        \cup {[email |-> "a@x.com", password |-> "", mailbox |-> "a@x.com"],
              [email |-> "a@x.com", password |-> "pw", mailbox |-> "b@x.com"],
              [email |-> "a@x.com", password |-> "pw", mailbox |-> NotAnEmail]}

----------------------------------------------------------------------------
(* Program constants *)

MsPerSec == 1000
TokenLifetimeSec == 24 * 60 * 60
TokenLifetimeMs == 24 * 60 * 60 * 1000

----------------------------------------------------------------------------
(* Maps (JavaScript Map) *)

EmptyMap == [x \in {} |-> x]

MapHas(m, k) == k \in DOMAIN m

MapSet(m, k, v) == [x \in (DOMAIN m) \cup {k} |-> IF x = k THEN v ELSE m[x]]

MapDelete(m, k) == [x \in (DOMAIN m) \ {k} |-> m[x]]

----------------------------------------------------------------------------
(* JSON web tokens.  jwt.sign with HS256 is a function of payload and      *)
(* secret: the token value is its payload plus a signature that is valid   *)
(* ("ok") exactly when it was made with the server's secret.               *)

NoToken == [email |-> "", mailbox |-> "", iat |-> 0, exp |-> 0, sig |-> "none"]

(* A bearer string that was not signed with the secret. *)
ForgedToken == [email |-> "a@x.com", mailbox |-> "a@x.com", iat |-> 0, exp |-> 0, sig |-> "bad"]

generateToken(email, mailbox, t) ==
    [email |-> email, mailbox |-> mailbox,
     iat |-> t \div MsPerSec,
     exp |-> (t \div MsPerSec) + TokenLifetimeSec,
     sig |-> "ok"]

(* jwt.verify: throws on a bad signature and when the exp claim is reached. *)
jwtVerify(token, t) ==
    /\ token.sig = "ok"
    /\ ~((t \div MsPerSec) >= token.exp)

(* The registry entry written at issuance. *)
NewEntry(email, mailbox, t) ==
    [email |-> email, mailbox |-> mailbox, createdAt |-> t, expiresAt |-> t + TokenLifetimeMs]

(* Mutant: the expiry of a registry entry is never looked at. *)
EntryExpired_NeverExpires(entry, t) == FALSE

(* tokenData.expiresAt < new Date() *)
EntryExpired(entry, t) == entry.expiresAt < t

(* express-validator isEmail / notEmpty on the inputs of the model *)
isEmail(s) == s \in Mailboxes

notEmpty(s) == s # ""

----------------------------------------------------------------------------
(* utils/validators (src/backend/utils/logger.js:98-319).  A string is a   *)
(* sequence of one-character strings.                                      *)

Digit == {"0", "1", "2", "3", "4", "5", "6", "7", "8", "9"}
LowerSeq == <<"a", "b", "c", "d", "e", "f", "g", "h", "i", "j", "k", "l", "m",
              "n", "o", "p", "q", "r", "s", "t", "u", "v", "w", "x", "y", "z">>
UpperSeq == <<"A", "B", "C", "D", "E", "F", "G", "H", "I", "J", "K", "L", "M",
              "N", "O", "P", "Q", "R", "S", "T", "U", "V", "W", "X", "Y", "Z">>
Lower == {LowerSeq[i] : i \in DOMAIN LowerSeq}
Upper == {UpperSeq[i] : i \in DOMAIN UpperSeq}
Alnum == Lower \cup Upper \cup Digit
HexDigit == Digit \cup {"a", "b", "c", "d", "e", "f", "A", "B", "C", "D", "E", "F"}
WordChar == Alnum \cup {"_"}
Whitespace == {" "}
(* The grave accent cannot be written in a TLA+ string; this stands for it. *)
Backtick == "grave"

(* the character class of the local part of isValidEmail *)
LocalPartChar ==
    Alnum \cup {".", "!", "#", "$", "%", "&", "'", "*", "+", "/", "=", "?", "^", "_", Backtick,
                "{", "|", "}", "~", "-"}

(* String.prototype.toLowerCase, trim, includes, startsWith *)
toLowerChar(c) ==
    IF c \in Upper THEN LowerSeq[CHOOSE i \in DOMAIN UpperSeq : UpperSeq[i] = c] ELSE c

toLowerCase(s) == [i \in DOMAIN s |-> toLowerChar(s[i])]

RECURSIVE trimStart(_)
trimStart(s) == IF s # <<>> /\ Head(s) \in Whitespace THEN trimStart(Tail(s)) ELSE s

RECURSIVE trimEnd(_)
trimEnd(s) ==
    IF s # <<>> /\ s[Len(s)] \in Whitespace THEN trimEnd(SubSeq(s, 1, Len(s) - 1)) ELSE s

trim(s) == trimEnd(trimStart(s))

includes(s, sub) ==
    \E i \in 1..(Len(s) - Len(sub) + 1) : SubSeq(s, i, i + Len(sub) - 1) = sub

startsWith(s, sub) == Len(s) >= Len(sub) /\ SubSeq(s, 1, Len(sub)) = sub

(* The pieces of s between the occurrences of the character c. *)
RECURSIVE split(_, _)
split(s, c) ==
    IF \A i \in DOMAIN s : s[i] # c
    THEN <<s>>
    ELSE LET i == CHOOSE k \in DOMAIN s : s[k] = c /\ \A j \in 1..(k - 1) : s[j] # c
         IN <<SubSeq(s, 1, i - 1)>> \o split(SubSeq(s, i + 1, Len(s)), c)

(* one DNS label: 1 to 63 of alphanumerics and hyphens, alphanumeric at both ends *)
IsLabel(l) ==
    /\ Len(l) >= 1
    /\ Len(l) <= 63
    /\ l[1] \in Alnum
    /\ l[Len(l)] \in Alnum
    /\ \A i \in DOMAIN l : l[i] \in Alnum \cup {"-"}

(* dot-separated labels *)
IsLabels(s) == LET parts == split(s, ".") IN \A i \in DOMAIN parts : IsLabel(parts[i])

(* an optional leading star-dot, then dot-separated labels *)
IsWildLabels(s) == IsLabels(IF startsWith(s, <<"*", ".">>) THEN SubSeq(s, 3, Len(s)) ELSE s)

(* The text before and after the first '@' of a string that has one. *)
BeforeAt(s) == split(s, "@")[1]

AfterAt(s) == SubSeq(s, Len(BeforeAt(s)) + 2, Len(s))

IsLocalPart(s) == Len(s) >= 1 /\ \A i \in DOMAIN s : s[i] \in LocalPartChar

isValidEmail(email) ==
    /\ includes(email, <<"@">>)
    /\ IsLocalPart(BeforeAt(email))
    /\ IsLabels(AfterAt(email))

isValidDomain(domain) ==
    LET cleanDomain == IF startsWith(domain, <<"@">>) THEN SubSeq(domain, 2, Len(domain)) ELSE domain
    IN IsLabels(cleanDomain) /\ Len(cleanDomain) <= 253

(* an octet of the ipv4Regex: 250-255, 200-249, or one to three digits led by 0 or 1 *)
IsOctet(o) ==
    /\ Len(o) \in 1..3
    /\ \A i \in DOMAIN o : o[i] \in Digit
    /\ Len(o) = 3 =>
          \/ o[1] \in {"0", "1"}
          \/ o[1] = "2" /\ o[2] \in {"0", "1", "2", "3", "4"}
          \/ o[1] = "2" /\ o[2] = "5" /\ o[3] \in {"0", "1", "2", "3", "4", "5"}

isValidIPv4(ip) ==
    LET parts == split(ip, ".") IN Len(parts) = 4 /\ \A i \in DOMAIN parts : IsOctet(parts[i])

isValidIPv6(ip) ==
    LET parts == split(ip, ":") IN
    \/ /\ Len(parts) = 8
       /\ \A i \in DOMAIN parts :
             Len(parts[i]) \in 1..4 /\ \A j \in DOMAIN parts[i] : parts[i][j] \in HexDigit
    \/ ip = <<":", ":", "1">>
    \/ ip = <<":", ":">>

isValidIP(ip) == isValidIPv4(ip) \/ isValidIPv6(ip)

isValidWildcard(pattern) ==
    \/ IsWildLabels(pattern)
    \/ /\ includes(pattern, <<"@">>)
       /\ IsLocalPart(BeforeAt(pattern))
       /\ IsWildLabels(AfterAt(pattern))

(* Mutant: the marker is put before every text that holds a dot, whether  *)
(* or not it has one already.                                              *)
normalizeEntry_MarksAgain(entry) ==
    LET normalized == toLowerCase(trim(entry)) IN
    IF includes(normalized, <<".">>) THEN <<"@">> \o normalized ELSE normalized

(* Mutant: the marker is put before every text that holds a dot, email   *)
(* addresses included.                                                     *)
normalizeEntry_AlwaysMarks(entry) ==
    LET normalized == toLowerCase(trim(entry)) IN
    IF includes(normalized, <<".">>) /\ ~startsWith(normalized, <<"@">>)
    THEN <<"@">> \o normalized
    ELSE normalized

normalizeEntry(entry) ==
    LET normalized == toLowerCase(trim(entry)) IN
    IF entry = <<>> THEN <<>>
    ELSE IF includes(normalized, <<"@">>) /\ ~startsWith(normalized, <<"@">>) THEN normalized
    ELSE IF includes(normalized, <<".">>) /\ ~includes(normalized, <<"@">>)
         THEN (IF ~startsWith(normalized, <<"@">>) THEN <<"@">> \o normalized ELSE normalized)
    ELSE normalized

(* the literal, any whitespace, then the character c *)
MatchesLitWsChar(s, lit, c) ==
    \E i \in DOMAIN s, j \in DOMAIN s :
        /\ i + Len(lit) <= j
        /\ SubSeq(s, i, i + Len(lit) - 1) = lit
        /\ \A k \in (i + Len(lit))..(j - 1) : s[k] \in Whitespace
        /\ s[j] = c

(* "on", one or more word characters, any whitespace, "=" *)
MatchesEventHandler(s) ==
    \E i \in DOMAIN s, a \in DOMAIN s, j \in DOMAIN s :
        /\ i + 2 <= a
        /\ a < j
        /\ SubSeq(s, i, i + 1) = <<"o", "n">>
        /\ \A k \in (i + 2)..a : s[k] \in WordChar
        /\ \A k \in (a + 1)..(j - 1) : s[k] \in Whitespace
        /\ s[j] = "="

(* Mutant: no pattern of the denylist is tried. *)
IsDangerous_Never(text) == FALSE

(* The dangerousPatterns; all carry the i flag. *)
IsDangerous(text) ==
    LET s == toLowerCase(text) IN
    \/ includes(s, <<"<", "s", "c", "r", "i", "p", "t">>)
    \/ includes(s, <<"j", "a", "v", "a", "s", "c", "r", "i", "p", "t", ":">>)
    \/ MatchesEventHandler(s)
    \/ MatchesLitWsChar(s, <<"e", "v", "a", "l">>, "(")
    \/ MatchesLitWsChar(s, <<"e", "x", "p", "r", "e", "s", "s", "i", "o", "n">>, "(")
    \/ MatchesLitWsChar(s, <<"u", "r", "l">>, "(")
    \/ includes(s, <<"@", "i", "m", "p", "o", "r", "t">>)
    \/ includes(s, <<"<", "i", "f", "r", "a", "m", "e">>)
    \/ includes(s, <<"<", "o", "b", "j", "e", "c", "t">>)
    \/ includes(s, <<"<", "e", "m", "b", "e", "d">>)

(* normalized.length > 255 *)
MaxEntryLength == 255

(* The error, if any, of the per-type branch of validateSpamEntry. *)
TypeErrors(normalized) ==
    IF includes(normalized, <<"@">>)
    THEN (IF ~isValidEmail(normalized) THEN <<"Invalid email address format">> ELSE <<>>)
    ELSE IF startsWith(normalized, <<"@">>)
    THEN (IF ~isValidDomain(normalized) THEN <<"Invalid domain format">> ELSE <<>>)
    ELSE IF includes(normalized, <<"*">>)
    THEN (IF ~isValidWildcard(normalized) THEN <<"Invalid wildcard pattern">> ELSE <<>>)
    ELSE IF isValidIP(normalized) THEN <<>>
    ELSE IF isValidDomain(<<"@">> \o normalized) THEN <<>>
    ELSE <<"Invalid entry format. Must be email, domain, IP address, or wildcard pattern">>

(* validateSpamEntry; hasNormalized is false on the early returns, which   *)
(* carry no normalized field.                                              *)
validateSpamEntry(entry) ==
    LET normalized == normalizeEntry(entry) IN
    IF entry = <<>>
    THEN [isValid |-> FALSE, errors |-> <<"Entry is required">>,
          hasNormalized |-> FALSE, normalized |-> <<>>]
    ELSE IF Len(normalized) = 0
    THEN [isValid |-> FALSE, errors |-> <<"Entry cannot be empty">>,
          hasNormalized |-> FALSE, normalized |-> <<>>]
    ELSE IF Len(normalized) > MaxEntryLength
    THEN [isValid |-> FALSE, errors |-> <<"Entry is too long (maximum 255 characters)">>,
          hasNormalized |-> FALSE, normalized |-> <<>>]
    ELSE LET errors == (IF IsDangerous(normalized)
                        THEN <<"Entry contains potentially dangerous content">> ELSE <<>>)
                       \o TypeErrors(normalized)
         IN [isValid |-> Len(errors) = 0, errors |-> errors,
             hasNormalized |-> TRUE, normalized |-> normalized]

----------------------------------------------------------------------------
(* Responses *)

NoUser == [email |-> "", mailbox |-> ""]

(* reqIssuedAt: when the presented token value was last handed out before  *)
(* this request (-1: never).                                               *)
Resp(op, status, message, reqToken, token, user, t) ==
    [op |-> op, status |-> status, message |-> message,
     reqToken |-> reqToken, token |-> token, user |-> user, at |-> t,
     reqIssuedAt |-> IF reqToken \in DOMAIN issuedAt THEN issuedAt[reqToken] ELSE -1,
     reqSession |-> "", reqEmail |-> "", reqMailbox |-> "", probed |-> FALSE]

(* The response r to an authentication request with these credentials;     *)
(* probed: whether the handler called the collaborator that checks them    *)
(* (verifyPleskSession, verifyMailboxOwnership).                           *)
ToCredentials(r, sessionId, email, mailbox, probed) ==
    [r EXCEPT !.reqSession = sessionId, !.reqEmail = email, !.reqMailbox = mailbox,
              !.probed = probed]

NoResp == Resp("none", 0, "", NoToken, NoToken, NoUser, 0)

CanIssue(token) ==
    \/ token \in DOMAIN issuedAt
    \/ Cardinality(DOMAIN issuedAt) < MaxIssued

----------------------------------------------------------------------------
(* Spam-rules requests and the filtering engine's lists *)

E_a == <<"a", "@", "x", ".", "c", "o">>
E_A == <<"A", "@", "x", ".", "c", "o">>
E_mx == <<"m", "x">>
E_script == <<"<", "s", "c", "r", "i", "p", "t">>

ListTypes == {"whitelist", "blacklist"}
Owner == "a@x.com"
Other == "b@x.com"

(* The principal that authenticateToken attaches: email and mailbox of the token. *)
Principal(m) == [email |-> m, mailbox |-> m]

(* Bodies of Add and Remove: the owner's requests for each list and entry, *)
(* requests naming another mailbox, and one for each way the body can fail *)
(* the route's express-validator chain.                                    *)
RuleRequests ==
    {[user |-> Principal(Owner), mailbox |-> Owner, listType |-> lt, entry |-> e] :
        lt \in ListTypes, e \in {E_a, E_A, E_mx, E_script}}
    \cup {[user |-> Principal(Owner), mailbox |-> Other, listType |-> "whitelist", entry |-> e] :
            e \in {E_a, E_mx}}
    \cup {[user |-> Principal(Other), mailbox |-> Owner, listType |-> "whitelist", entry |-> E_a],
          [user |-> Principal(Other), mailbox |-> Other, listType |-> "whitelist", entry |-> E_a],
          [user |-> Principal(Owner), mailbox |-> NotAnEmail, listType |-> "whitelist", entry |-> E_a],
          [user |-> Principal(Owner), mailbox |-> Owner, listType |-> "greylist", entry |-> E_a],
          [user |-> Principal(Owner), mailbox |-> Owner, listType |-> "whitelist", entry |-> <<>>]}

(* Operations of a Bulk body. *)
BulkOps ==
    {[action |-> "add", listType |-> "whitelist", entry |-> E_A],
     [action |-> "add", listType |-> "whitelist", entry |-> E_script],
     [action |-> "remove", listType |-> "whitelist", entry |-> E_a]}

RECURSIVE SeqsUpTo(_, _)
SeqsUpTo(S, n) ==
    IF n = 0 THEN {<<>>}
    ELSE LET shorter == SeqsUpTo(S, n - 1)
         IN shorter \cup {Append(q, x) : q \in {r \in shorter : Len(r) = n - 1}, x \in S}

BulkRequests ==
    {[user |-> Principal(Owner), mailbox |-> m, operations |-> ops] :
        m \in {Owner, Other}, ops \in SeqsUpTo(BulkOps, MaxOps)}

(* The lists the engine may hold when the service starts. *)
InitialRules ==
    {[m \in Mailboxes |->
        IF m = Owner THEN [whitelist |-> wl, blacklist |-> bl]
                     ELSE [whitelist |-> <<E_a>>, blacklist |-> <<>>]] :
        wl \in {<<>>, <<E_a>>, <<E_a, E_mx>>}, bl \in {<<>>, <<E_mx>>}}

(* Array.prototype.includes *)
arrayIncludes(list, x) == \E i \in DOMAIN list : list[i] = x

NoEntry == <<>>

(* calls: the Store Adapter operations the handler invoked, in order, each  *)
(* with whether its command succeeded; errors: the errors of a Bulk        *)
(* response, or the details of an error response; results: the results of  *)
(* a Bulk response, or the entry an Add response reports;                  *)
(* fetched: the list of the target kind that getSpamRules returned to it.  *)
RResp(op, status, message, req, calls, fetched, results, errors) ==
    [op |-> op, status |-> status, message |-> message,
     user |-> req.user, mailbox |-> req.mailbox, listType |-> req.listType, entry |-> req.entry,
     operations |-> req.operations,
     calls |-> calls, fetched |-> fetched, results |-> results, errors |-> errors]

NoReq == [user |-> NoUser, mailbox |-> "", listType |-> "", entry |-> NoEntry, operations |-> <<>>]

(* An Add or Remove body as a request; a Bulk body as a request. *)
SingleReq(r) ==
    [user |-> r.user, mailbox |-> r.mailbox, listType |-> r.listType, entry |-> r.entry,
     operations |-> <<>>]

BulkReq(r) ==
    [user |-> r.user, mailbox |-> r.mailbox, listType |-> "", entry |-> NoEntry,
     operations |-> r.operations]

NoRResp == RResp("none", 0, "", NoReq, <<>>, <<>>, <<>>, <<>>)

(* A logger.warn record: its message, the names of the fields of its meta  *)
(* object, and the values of the three that identify a denial ("" for a    *)
(* field the record does not have).                                        *)
Warn(message, fields, requestedMailbox, userMailbox, user) ==
    [message |-> message, fields |-> fields, requestedMailbox |-> requestedMailbox,
     userMailbox |-> userMailbox, user |-> user]

NoLog == Warn("", {}, "", "", "")

----------------------------------------------------------------------------
AuthInit ==
    /\ now = 0
    /\ advances = 0
    /\ tokenStore = EmptyMap
    /\ mwTokenStore = EmptyMap
    /\ issuedAt = EmptyMap
    /\ revoked = {}
    /\ prevStore = EmptyMap
    /\ resp = NoResp

RulesIdle ==
    /\ prevRules = rules
    /\ rresp = NoRResp
    /\ logged = NoLog

(* No call of validateSpamEntry on its own is under way. *)
NoVerdict == [isValid |-> FALSE, errors |-> <<>>, hasNormalized |-> FALSE, normalized |-> <<>>]

ValIdle ==
    /\ candidate = <<>>
    /\ verdict = NoVerdict

(* The limiter as userRateLimit(maxRequests, windowMs) returns it: an      *)
(* empty Map, no request handled.                                          *)
NoRateResp == [op |-> "none", user |-> NoUser, at |-> 0, status |-> 0, recent |-> 0]

RateIdle ==
    /\ rateNow = 0
    /\ userRequests = EmptyMap
    /\ admitted = <<>>
    /\ hits = 0
    /\ rateResp = NoRateResp

(* Concurrent handling: a slot is a request the server is handling; pc is *)
(* where its handler stands (idle: it has responded, with status).        *)
Slots == 1..MaxInflight

NoRaceReq == [op |-> "none", user |-> NoUser, mailbox |-> "", listType |-> "", entry |-> NoEntry]

IdleSlot(status) ==
    [pc |-> "idle", req |-> NoRaceReq, existingList |-> <<>>, success |-> FALSE,
     status |-> status]

NoCall == [fn |-> "none", mailbox |-> "", listType |-> "", entry |-> NoEntry, present |-> FALSE]

RaceIdle ==
    /\ inflight = [slot \in Slots |-> IdleSlot(0)]
    /\ lastCall = NoCall

Init ==
    /\ AuthInit
    /\ rules \in InitialRules
    /\ RulesIdle
    /\ ValIdle
    /\ RateIdle
    /\ RaceIdle

(* The clock moves between requests; the response of the last request has  *)
(* been delivered by then.                                                 *)
Advance(d) ==
    /\ advances < MaxAdvances
    /\ now' = now + d
    /\ advances' = advances + 1
    /\ prevStore' = EmptyMap
    /\ resp' = NoResp
    /\ UNCHANGED <<tokenStore, mwTokenStore, issuedAt, revoked>>
    /\ UNCHANGED <<ruleVars, valVars, rateVars, raceVars>>

(* PleskAdapter.verifyPleskSession: the placeholder returns true. *)
verifyPleskSession(sessionId, mailbox) == TRUE

(* The sessions the Plesk panel holds, each with the mailbox it gives      *)
(* access to: what the API call that verifyPleskSession is to make would   *)
(* answer from.                                                            *)
PanelSessions == {[sessionId |-> "sess", mailbox |-> "a@x.com"]}

(* POST /auth/verify-plesk-session *)
VerifyPleskSession(sessionId, mailbox) ==
    LET token == generateToken(mailbox, mailbox, now)
        Answer(status, message, tok, probed) ==
            ToCredentials(Resp("verify-plesk-session", status, message, NoToken, tok, NoUser, now),
                          sessionId, "", mailbox, probed)
    IN
    /\ prevStore' = tokenStore
    /\ UNCHANGED <<now, advances, mwTokenStore, revoked>>
    /\ UNCHANGED <<ruleVars, valVars, rateVars, raceVars>>
    /\ IF ~(notEmpty(sessionId) /\ isEmail(mailbox))
       THEN /\ resp' = Answer(400, "Validation failed", NoToken, FALSE)
            /\ UNCHANGED <<tokenStore, issuedAt>>
       ELSE IF ~verifyPleskSession(sessionId, mailbox)
       THEN /\ resp' = Answer(401, "Invalid session or insufficient permissions", NoToken, TRUE)
            /\ UNCHANGED <<tokenStore, issuedAt>>
       ELSE /\ CanIssue(token)
            /\ tokenStore' = MapSet(tokenStore, token, NewEntry(mailbox, mailbox, now))
            /\ issuedAt' = MapSet(issuedAt, token, now)
            /\ resp' = Answer(200, "Authentication successful", token, TRUE)

(* Mutant: the email and the mailbox of a request are not compared. *)
EmailMismatch_Never(email, mailbox) == FALSE

(* Mutant: only an absent email counts as a mismatch. *)
EmailMismatch_OnlyAbsent(email, mailbox) == email = ""

(* email !== mailbox *)
EmailMismatch(email, mailbox) == email # mailbox

(* POST /auth/verify-mailbox; isOwner is the outcome of the IMAP handshake. *)
VerifyMailbox(email, password, mailbox, isOwner) ==
    LET token == generateToken(email, mailbox, now)
        Answer(status, message, tok, probed) ==
            ToCredentials(Resp("verify-mailbox", status, message, NoToken, tok, NoUser, now),
                          "", email, mailbox, probed)
    IN
    /\ prevStore' = tokenStore
    /\ UNCHANGED <<now, advances, mwTokenStore, revoked>>
    /\ UNCHANGED <<ruleVars, valVars, rateVars, raceVars>>
    /\ IF ~(isEmail(email) /\ notEmpty(password) /\ isEmail(mailbox))
       THEN /\ resp' = Answer(400, "Validation failed", NoToken, FALSE)
            /\ UNCHANGED <<tokenStore, issuedAt>>
       ELSE IF EmailMismatch(email, mailbox)
       THEN /\ resp' = Answer(400, "Email and mailbox must match", NoToken, FALSE)
            /\ UNCHANGED <<tokenStore, issuedAt>>
       ELSE IF ~isOwner
       THEN /\ resp' = Answer(401, "Invalid credentials or mailbox not accessible", NoToken, TRUE)
            /\ UNCHANGED <<tokenStore, issuedAt>>
       ELSE /\ CanIssue(token)
            /\ tokenStore' = MapSet(tokenStore, token, NewEntry(email, mailbox, now))
            /\ issuedAt' = MapSet(issuedAt, token, now)
            /\ resp' = Answer(200, "Authentication successful", token, TRUE)

(* Mutant: a failed refresh leaves the registry as it is. *)
RefreshRejectStore_KeepsEntry(store, token) == store

(* The registry after a refresh that fails: the presented token is deleted. *)
RefreshRejectStore(store, token) == MapDelete(store, token)

(* Mutant: the old entry is spread last, so its expiry survives the refresh. *)
RefreshAcceptStore_KeepsExpiry(store, token, newToken, t) ==
    MapSet(MapDelete(store, token), newToken, store[token])

(* The registry after a refresh that succeeds. *)
RefreshAcceptStore(store, token, newToken, t) ==
    MapSet(MapDelete(store, token), newToken,
           [store[token] EXCEPT !.createdAt = t, !.expiresAt = t + TokenLifetimeMs])

(* The test that makes refresh fail. *)
RefreshRejects(store, token, t) ==
    ~MapHas(store, token) \/ EntryExpired(store[token], t)

(* POST /auth/refresh *)
Refresh(token) ==
    /\ prevStore' = tokenStore
    /\ UNCHANGED <<now, advances, mwTokenStore, revoked>>
    /\ UNCHANGED <<ruleVars, valVars, rateVars, raceVars>>
    /\ IF RefreshRejects(tokenStore, token, now)
       THEN /\ tokenStore' = RefreshRejectStore(tokenStore, token)
            /\ resp' = Resp("refresh", 401, "Invalid or expired token", token, NoToken, NoUser, now)
            /\ UNCHANGED issuedAt
       ELSE LET tokenData == tokenStore[token]
                newToken == generateToken(tokenData.email, tokenData.mailbox, now)
            IN /\ CanIssue(newToken)
               /\ tokenStore' = RefreshAcceptStore(tokenStore, token, newToken, now)
               /\ issuedAt' = MapSet(issuedAt, newToken, now)
               /\ resp' = Resp("refresh", 200, "Token refreshed successfully", token, newToken, NoUser, now)

(* Mutant: logout reports success without touching the registry. *)
LogoutStore_KeepsEntry(store, token) == store

(* The registry after a logout. *)
LogoutStore(store, token) ==
    IF MapHas(store, token) THEN MapDelete(store, token) ELSE store

(* POST /auth/logout *)
Logout(token) ==
    /\ prevStore' = tokenStore
    /\ tokenStore' = LogoutStore(tokenStore, token)
    /\ revoked' = IF MapHas(tokenStore, token) THEN revoked \cup {token} ELSE revoked
    /\ resp' = Resp("logout", 200, "Logged out successfully", token, NoToken, NoUser, now)
    /\ UNCHANGED <<now, advances, mwTokenStore, issuedAt>>
    /\ UNCHANGED <<ruleVars, valVars, rateVars, raceVars>>

(* The registry that authenticateToken consults: the Map of its own module. *)
AuthRegistry == mwTokenStore

(* authenticateToken on a protected request bearing `token` (NoToken: no    *)
(* Authorization header).                                                   *)
AuthenticateToken(token) ==
    /\ prevStore' = tokenStore
    /\ UNCHANGED <<now, advances, tokenStore, issuedAt, revoked>>
    /\ UNCHANGED <<ruleVars, valVars, rateVars, raceVars>>
    /\ IF token = NoToken
       THEN /\ resp' = Resp("protected", 401, "Access token required", token, NoToken, NoUser, now)
            /\ UNCHANGED mwTokenStore
       ELSE IF ~jwtVerify(token, now)
       THEN /\ resp' = Resp("protected", 403, "Invalid token", token, NoToken, NoUser, now)
            /\ UNCHANGED mwTokenStore
       ELSE IF ~MapHas(AuthRegistry, token) \/ EntryExpired(AuthRegistry[token], now)
       THEN /\ mwTokenStore' = MapDelete(mwTokenStore, token)
            /\ resp' = Resp("protected", 401, "Token expired or invalid", token, NoToken, NoUser, now)
       ELSE /\ resp' = Resp("protected", 200, "next", token, NoToken,
                            [email |-> token.email, mailbox |-> token.mailbox], now)
            /\ UNCHANGED mwTokenStore

----------------------------------------------------------------------------
(* The characters that stay active inside the double quotes of            *)
(* -entry "${entry}" when exec hands the command to the shell.             *)
ShellActive == {Backtick, "$", "\"", "\\"}

(* adapters/plesk (src/unnamed/part_001): the Store Adapter.  cliOk is     *)
(* whether the plesk command the operation runs exits successfully.        *)

Call(fn, mailbox, listType, entry, ok) ==
    [fn |-> fn, mailbox |-> mailbox, listType |-> listType, entry |-> entry, ok |-> ok]

EmptyRules == [whitelist |-> <<>>, blacklist |-> <<>>]

(* getSpamRules: the parsed lists, or empty lists when the command fails. *)
getSpamRules(store, mailbox, cliOk) == IF cliOk THEN store[mailbox] ELSE EmptyRules

(* The engine's lists after --add-<listType> / --remove-<listType>. *)
EngineAdd(store, mailbox, listType, entry) ==
    IF arrayIncludes(store[mailbox][listType], entry) THEN store
    ELSE [store EXCEPT ![mailbox][listType] = Append(@, entry)]

EngineRemove(store, mailbox, listType, entry) ==
    [store EXCEPT ![mailbox][listType] = SelectSeq(@, LAMBDA x : x # entry)]

(* error.message of the failed command, as the adapter returns it. *)
CliError == "Command failed"
NoError == ""

addSpamRule(store, mailbox, listType, entry, cliOk) ==
    IF cliOk THEN [success |-> TRUE, error |-> NoError,
                   rules |-> EngineAdd(store, mailbox, listType, entry)]
    ELSE [success |-> FALSE, error |-> CliError, rules |-> store]

removeSpamRule(store, mailbox, listType, entry, cliOk) ==
    IF cliOk THEN [success |-> TRUE, error |-> NoError,
                   rules |-> EngineRemove(store, mailbox, listType, entry)]
    ELSE [success |-> FALSE, error |-> CliError, rules |-> store]

----------------------------------------------------------------------------
(* routes/spamRules (src/unnamed/part_003).  Each handler is an operator   *)
(* from the request, the engine's lists and the outcomes of the adapter's  *)
(* commands to the response and the engine's lists afterwards.             *)

Outcome(store, r) == [rules |-> store, resp |-> r]

(* The express-validator chains of the routes. *)
ListBodyValid(req) == isEmail(req.mailbox)

SingleBodyValid(req) ==
    isEmail(req.mailbox) /\ req.listType \in ListTypes /\ req.entry # <<>>

BulkBodyValid(req) ==
    /\ isEmail(req.mailbox)
    /\ \A i \in DOMAIN req.operations :
          /\ req.operations[i].action \in {"add", "remove"}
          /\ req.operations[i].listType \in ListTypes
          /\ req.operations[i].entry # <<>>

(* mailbox !== userMailbox *)
OwnershipDenied(req) == req.mailbox # req.user.mailbox

AccessDenied == "Access denied: You can only manage your own mailbox"

(* What the handler of op writes with logger.warn in its denial branch:    *)
(* List, Add and Remove log requestedMailbox, userMailbox and ip; Bulk     *)
(* calls no logger there; verifyOwnership logs requestedMailbox,           *)
(* userMailbox, ip and user (req.user.email).                              *)
DenialLog(op, req) ==
    CASE op = "list" ->
            Warn("Unauthorized access attempt", {"requestedMailbox", "userMailbox", "ip"},
                 req.mailbox, req.user.mailbox, "")
      [] op \in {"add", "remove"} ->
            Warn("Unauthorized modification attempt", {"requestedMailbox", "userMailbox", "ip"},
                 req.mailbox, req.user.mailbox, "")
      [] op = "verifyOwnership" ->
            Warn("Ownership verification failed",
                 {"requestedMailbox", "userMailbox", "ip", "user"},
                 req.mailbox, req.user.mailbox, req.user.email)
      [] OTHER -> NoLog

(* The record logged while the request was handled: that of the denial     *)
(* branch when the response is the 403 of that branch.                     *)
LoggedFor(r, req) == IF r.status = 403 THEN DenialLog(r.op, req) ELSE NoLog

(* GET /spam-rules *)
ListOutcome(req, store, fetchOk) ==
    IF ~ListBodyValid(req)
    THEN Outcome(store, RResp("list", 400, "Validation failed", req, <<>>, <<>>, <<>>, <<>>))
    ELSE IF OwnershipDenied(req)
    THEN Outcome(store, RResp("list", 403, AccessDenied, req, <<>>, <<>>, <<>>, <<>>))
    ELSE LET fetched == getSpamRules(store, req.mailbox, fetchOk)
         IN Outcome(store, RResp("list", 200, "success", req,
                                 <<Call("getSpamRules", req.mailbox, "", NoEntry, fetchOk)>>,
                                 fetched.whitelist \o fetched.blacklist, <<>>, <<>>))

(* In the handler of POST /spam-rules, `const validationResult` (line 97)  *)
(* is declared in the try block whose first statement (line 71) calls      *)
(* validationResult(req): the call reads the block's own binding before    *)
(* its initialisation and throws a ReferenceError, which the catch clause  *)
(* turns into the 500 response.                                            *)
AddReadsValidationResultBeforeInit == TRUE

(* existingList.includes(entry) in the Add handler *)
AddFindsDuplicate(existingList, entry) == arrayIncludes(existingList, entry)

(* Mutant: a failure the adapter reports is not looked at. *)
ReportsAdapterFailure_Never(result) == FALSE

(* !result.success after the adapter's add or remove *)
ReportsAdapterFailure(result) == ~result.success

(* The statements of the Add handler's try block after its first one. *)
AddBody(req, store, fetchOk, cliOk) ==
    IF ~SingleBodyValid(req)
    THEN Outcome(store, RResp("add", 400, "Validation failed", req, <<>>, <<>>, <<>>, <<>>))
    ELSE IF OwnershipDenied(req)
    THEN Outcome(store, RResp("add", 403, AccessDenied, req, <<>>, <<>>, <<>>, <<>>))
    ELSE IF ~validateSpamEntry(req.entry).isValid
    THEN Outcome(store, RResp("add", 400, "Invalid entry format", req, <<>>, <<>>, <<>>,
                              validateSpamEntry(req.entry).errors))
    ELSE LET existingList == getSpamRules(store, req.mailbox, fetchOk)[req.listType]
             get == Call("getSpamRules", req.mailbox, "", NoEntry, fetchOk)
             add == Call("addSpamRule", req.mailbox, req.listType, req.entry, cliOk)
             result == addSpamRule(store, req.mailbox, req.listType, req.entry, cliOk)
         IN IF AddFindsDuplicate(existingList, req.entry)
            THEN Outcome(store, RResp("add", 409, "Entry already exists in the list", req,
                                      <<get>>, existingList, <<>>, <<>>))
            ELSE IF ReportsAdapterFailure(result)
            THEN Outcome(result.rules, RResp("add", 500, "Failed to add entry", req,
                                             <<get, add>>, existingList, <<>>, <<result.error>>))
            ELSE Outcome(result.rules, RResp("add", 200, "Entry added successfully", req,
                                             <<get, add>>, existingList,
                                             <<[value |-> req.entry, listType |-> req.listType]>>,
                                             <<>>))

(* POST /spam-rules *)
AddOutcome(req, store, fetchOk, cliOk) ==
    IF AddReadsValidationResultBeforeInit
    THEN Outcome(store, RResp("add", 500, "Failed to add entry", req, <<>>, <<>>, <<>>, <<>>))
    ELSE AddBody(req, store, fetchOk, cliOk)

(* Mutant: the presence check of Remove is left out. *)
RemoveFindsEntry_Always(existingList, entry) == TRUE

(* existingList.includes(entry) in the Remove handler *)
RemoveFindsEntry(existingList, entry) == arrayIncludes(existingList, entry)

(* DELETE /spam-rules *)
RemoveOutcome(req, store, fetchOk, cliOk) ==
    IF ~SingleBodyValid(req)
    THEN Outcome(store, RResp("remove", 400, "Validation failed", req, <<>>, <<>>, <<>>, <<>>))
    ELSE IF OwnershipDenied(req)
    THEN Outcome(store, RResp("remove", 403, AccessDenied, req, <<>>, <<>>, <<>>, <<>>))
    ELSE LET existingList == getSpamRules(store, req.mailbox, fetchOk)[req.listType]
             get == Call("getSpamRules", req.mailbox, "", NoEntry, fetchOk)
             remove == Call("removeSpamRule", req.mailbox, req.listType, req.entry, cliOk)
             result == removeSpamRule(store, req.mailbox, req.listType, req.entry, cliOk)
         IN IF ~RemoveFindsEntry(existingList, req.entry)
            THEN Outcome(store, RResp("remove", 404, "Entry not found in the list", req,
                                      <<get>>, existingList, <<>>, <<>>))
            ELSE IF ReportsAdapterFailure(result)
            THEN Outcome(result.rules, RResp("remove", 500, "Failed to remove entry", req,
                                             <<get, remove>>, existingList, <<>>,
                                             <<result.error>>))
            ELSE Outcome(result.rules, RResp("remove", 200, "Entry removed successfully", req,
                                             <<get, remove>>, existingList, <<>>, <<>>))

(* The try block of the handler of POST /spam-rules/bulk declares `const   *)
(* errors` twice (lines 252 and 273): an early SyntaxError (Identifier     *)
(* 'errors' has already been declared), so the handler's function is never *)
(* created.  The error is raised for the file as a whole; the model        *)
(* confines it to the handler that contains it.                            *)
BulkHandlerParses == FALSE

(* The for loop of the Bulk handler over the operations left, with the     *)
(* outcomes cliOks of the adapter's commands; acc is the engine's lists    *)
(* and the results, errors and adapter calls so far.                       *)
RECURSIVE BulkLoop(_, _, _, _)
BulkLoop(operations, cliOks, mailbox, acc) ==
    IF operations = <<>> THEN acc
    ELSE LET operation == Head(operations)
             call == Call(IF operation.action = "add" THEN "addSpamRule" ELSE "removeSpamRule",
                          mailbox, operation.listType, operation.entry, Head(cliOks))
             result == IF operation.action = "add"
                       THEN addSpamRule(acc.rules, mailbox, operation.listType, operation.entry,
                                        Head(cliOks))
                       ELSE removeSpamRule(acc.rules, mailbox, operation.listType, operation.entry,
                                           Head(cliOks))
             next ==
                IF ~validateSpamEntry(operation.entry).isValid
                THEN [acc EXCEPT !.errors = Append(@, [entry |-> operation.entry,
                                                       error |-> "Invalid entry format"])]
                ELSE IF ~ReportsAdapterFailure(result)
                THEN [acc EXCEPT !.rules = result.rules,
                                 !.calls = Append(@, call),
                                 !.results = Append(@, [action |-> operation.action,
                                                        listType |-> operation.listType,
                                                        entry |-> operation.entry,
                                                        status |-> "success"])]
                ELSE [acc EXCEPT !.calls = Append(@, call),
                                 !.errors = Append(@, [entry |-> operation.entry,
                                                       error |-> result.error])]
         IN BulkLoop(Tail(operations), Tail(cliOks), mailbox, next)

(* POST /spam-rules/bulk *)
BulkOutcome(req, store, cliOks) ==
    IF ~BulkHandlerParses
    THEN Outcome(store, RResp("bulk", 0, "no response", req, <<>>, <<>>, <<>>, <<>>))
    ELSE IF ~BulkBodyValid(req)
    THEN Outcome(store, RResp("bulk", 400, "Validation failed", req, <<>>, <<>>, <<>>, <<>>))
    ELSE IF OwnershipDenied(req)
    THEN Outcome(store, RResp("bulk", 403, AccessDenied, req, <<>>, <<>>, <<>>, <<>>))
    ELSE LET done == BulkLoop(req.operations, cliOks, req.mailbox,
                              [rules |-> store, results |-> <<>>, errors |-> <<>>, calls |-> <<>>])
         IN Outcome(done.rules, RResp("bulk", 200, "Bulk operation completed", req,
                                      done.calls, <<>>, done.results, done.errors))

(* A spam-rules request is handled: the response replaces the last one. *)
List(req, fetchOk) ==
    LET out == ListOutcome(req, rules, fetchOk) IN
    /\ rules' = out.rules
    /\ prevRules' = rules
    /\ rresp' = out.resp
    /\ logged' = LoggedFor(out.resp, req)
    /\ UNCHANGED <<authVars, valVars, rateVars, raceVars>>

Add(req, fetchOk, cliOk) ==
    LET out == AddOutcome(req, rules, fetchOk, cliOk) IN
    /\ rules' = out.rules
    /\ prevRules' = rules
    /\ rresp' = out.resp
    /\ logged' = LoggedFor(out.resp, req)
    /\ UNCHANGED <<authVars, valVars, rateVars, raceVars>>

Remove(req, fetchOk, cliOk) ==
    LET out == RemoveOutcome(req, rules, fetchOk, cliOk) IN
    /\ rules' = out.rules
    /\ prevRules' = rules
    /\ rresp' = out.resp
    /\ logged' = LoggedFor(out.resp, req)
    /\ UNCHANGED <<authVars, valVars, rateVars, raceVars>>

Bulk(req, cliOks) ==
    LET out == BulkOutcome(req, rules, cliOks) IN
    /\ rules' = out.rules
    /\ prevRules' = rules
    /\ rresp' = out.resp
    /\ logged' = LoggedFor(out.resp, req)
    /\ UNCHANGED <<authVars, valVars, rateVars, raceVars>>

(* What verifyOwnership reads: req.user, req.body.mailbox and              *)
(* req.query.mailbox ("": not given).                                      *)
GuardRequests ==
    [user : {Principal(Owner), Principal(Other)},
     body : {"", Owner, Other},
     query : {"", Owner, Other}]

(* req.body.mailbox || req.query.mailbox *)
RequestedMailbox(body, query) == IF body # "" THEN body ELSE query

(* requestedMailbox && requestedMailbox !== userMailbox *)
GuardDenies(requestedMailbox, userMailbox) ==
    requestedMailbox # "" /\ requestedMailbox # userMailbox

(* The request as the guard saw it, in the shape of a spam-rules request;  *)
(* listType and entry carry body.mailbox and query.mailbox.                *)
GuardReq(r) ==
    [user |-> r.user, mailbox |-> RequestedMailbox(r.body, r.query),
     listType |-> r.body, entry |-> <<r.query>>, operations |-> <<>>]

(* middleware/auth verifyOwnership: 403, or next() (status 200, "next"). *)
VerifyOwnership(r) ==
    LET req == GuardReq(r)
        answer == IF GuardDenies(req.mailbox, r.user.mailbox)
                  THEN RResp("verifyOwnership", 403, AccessDenied, req, <<>>, <<>>, <<>>, <<>>)
                  ELSE RResp("verifyOwnership", 200, "next", req, <<>>, <<>>, <<>>, <<>>)
    IN
    /\ prevRules' = rules
    /\ rresp' = answer
    /\ logged' = LoggedFor(answer, req)
    /\ UNCHANGED rules
    /\ UNCHANGED <<authVars, valVars, rateVars, raceVars>>

RulesNext ==
    \/ \E r \in GuardRequests : VerifyOwnership(r)
    \/ \E r \in RuleRequests, fetchOk \in BOOLEAN : List(SingleReq(r), fetchOk)
    \/ \E r \in RuleRequests, fetchOk \in BOOLEAN, cliOk \in BOOLEAN : Add(SingleReq(r), fetchOk, cliOk)
    \/ \E r \in RuleRequests, fetchOk \in BOOLEAN, cliOk \in BOOLEAN :
          Remove(SingleReq(r), fetchOk, cliOk)
    \/ \E r \in BulkRequests :
          \E cliOks \in [1..Len(r.operations) -> BOOLEAN] : Bulk(BulkReq(r), cliOks)

RulesSpec == Init /\ [][RulesNext]_vars

(* Bearer strings a client can present: every token ever handed out, a     *)
(* string not signed by the server, and (for authenticateToken) none.      *)
Presentable == (DOMAIN issuedAt) \cup {ForgedToken}

AuthNext ==
    \/ \E d \in Delays : Advance(d)
    \/ \E r \in PleskSessionRequests : VerifyPleskSession(r.sessionId, r.mailbox)
    \/ \E r \in MailboxRequests, ok \in BOOLEAN :
          VerifyMailbox(r.email, r.password, r.mailbox, ok)
    \/ \E t \in Presentable : Refresh(t)
    \/ \E t \in Presentable : Logout(t)
    \/ \E t \in Presentable \cup {NoToken} : AuthenticateToken(t)

(* The token registry on its own: the engine's lists stay as they are. *)
AuthOnlyInit ==
    /\ AuthInit
    /\ rules = [m \in Mailboxes |-> EmptyRules]
    /\ RulesIdle
    /\ ValIdle
    /\ RateIdle
    /\ RaceIdle

AuthSpec == AuthOnlyInit /\ [][AuthNext]_vars

----------------------------------------------------------------------------
(* validateSpamEntry on its own: the candidate is drawn from texts built   *)
(* of up to MaxParts fragments, and from texts at the length limit.        *)

Fragments ==
    {<<"a", "@", "x", ".", "c", "o">>,
     <<"A", "@", "X", ".", "c", "o">>,
     <<"x", ".", "c", "o">>,
     <<"a">>,
     <<"@">>,
     <<" ">>,
     <<".">>,
     <<"-">>,
     <<"=">>,
     <<"(">>,
     <<"*", ".">>,
     <<"1", ".", "2", ".", "3", ".", "4">>,
     <<":", ":", "1">>,
     <<"<", "s", "c", "r", "i", "p", "t">>,
     <<"j", "a", "v", "a", "s", "c", "r", "i", "p", "t", ":">>,
     <<"o", "n", "x">>,
     <<"e", "v", "a", "l">>,
     <<"e", "x", "p", "r", "e", "s", "s", "i", "o", "n">>,
     <<"u", "r", "l">>,
     <<" ", "(">>,
     <<"@", "i", "m", "p", "o", "r", "t">>,
     <<"<", "i", "f", "r", "a", "m", "e">>,
     <<"<", "o", "b", "j", "e", "c", "t">>,
     <<"<", "e", "m", "b", "e", "d">>,
     <<"E", "V", "A", "L">>,
     <<"x", "_", "y">>,
     <<"a", "@", "*", ".", "x", ".", "c", "o">>,
     <<"$">>}

RECURSIVE Texts(_)
Texts(n) ==
    IF n = 0 THEN {<<>>}
    ELSE Texts(n - 1) \cup {t \o f : t \in Texts(n - 1), f \in Fragments}

(* n times the letter a *)
Pad(n) == [i \in 1..n |-> "a"]

(* Texts of MaxEntryLength characters and of one more. *)
LongTexts ==
    {Pad(n - Len(t)) \o t :
        n \in {MaxEntryLength, MaxEntryLength + 1},
        t \in {<<"@", "x", ".", "c", "o">>, <<"<", "s", "c", "r", "i", "p", "t">>,
               <<".", "c", "o">>}}

Candidates == Texts(MaxParts) \cup LongTexts

ValInit ==
    /\ AuthInit
    /\ rules = [m \in Mailboxes |-> EmptyRules]
    /\ RulesIdle
    /\ RateIdle
    /\ RaceIdle
    /\ candidate \in Candidates
    /\ verdict = NoVerdict

Validate ==
    /\ verdict = NoVerdict
    /\ verdict' = validateSpamEntry(candidate)
    /\ UNCHANGED <<authVars, ruleVars, rateVars, raceVars, candidate>>

ValidatorSpec == ValInit /\ [][Validate]_vars

----------------------------------------------------------------------------
(* middleware/auth userRateLimit (src/backend/middleware/auth.js): the     *)
(* per-user limiter, one instance made with maxRequests and windowMs.      *)

(* Who req.user can be: a principal authenticateToken attached. *)
Principals == {[email |-> m, mailbox |-> m] : m \in Mailboxes}

(* Mutant: no recorded time counts as recent. *)
InWindow_Never(time, windowStart) == FALSE

(* time => time > windowStart *)
InWindow(time, windowStart) == time > windowStart

(* requests.filter(time => time > windowStart) *)
RecentOf(requests, windowStart) == SelectSeq(requests, LAMBDA time : InWindow(time, windowStart))

(* The clean-up loop: every user's times are filtered; a user left with    *)
(* none is deleted.                                                        *)
CleanUp(requestsOf, windowStart) ==
    LET kept == {u \in DOMAIN requestsOf : RecentOf(requestsOf[u], windowStart) # <<>>}
    IN [u \in kept |-> RecentOf(requestsOf[u], windowStart)]

(* History: how many requests of the user the limiter passed on at a time  *)
(* in (t - windowMs, t].                                                   *)
AdmittedWithin(user, t) ==
    Cardinality({i \in 1..Len(admitted) :
                    /\ admitted[i].user = user
                    /\ admitted[i].at > t - windowMs
                    /\ admitted[i].at <= t})

(* Mutant: a rejected request is recorded like an admitted one. *)
StoreOnReject_Records(cleaned, userId, recentRequests, t) ==
    MapSet(cleaned, userId, Append(recentRequests, t))

(* The Map after a request answered 429: the handler returns before        *)
(* recentRequests.push(now), so only the clean-up has changed it.          *)
StoreOnReject(cleaned, userId, recentRequests, t) == cleaned

(* Date.now() moves on between requests. *)
Tick ==
    /\ rateNow < MaxClock
    /\ rateNow' = rateNow + 1
    /\ UNCHANGED <<userRequests, admitted, hits, rateResp>>
    /\ UNCHANGED <<authVars, ruleVars, valVars, raceVars>>

(* One request through the middleware; user is req.user (NoUser: unset). *)
UserRateLimit(user) ==
    LET userId == user.email
        windowStart == rateNow - windowMs
        cleaned == CleanUp(userRequests, windowStart)
        userRequestTimes == IF MapHas(cleaned, userId) THEN cleaned[userId] ELSE <<>>
        recentRequests == RecentOf(userRequestTimes, windowStart)
        Answer(status) == [op |-> "request", user |-> user, at |-> rateNow, status |-> status,
                           recent |-> AdmittedWithin(user, rateNow)]
    IN
    /\ hits < MaxHits
    /\ hits' = hits + 1
    /\ UNCHANGED rateNow
    /\ UNCHANGED <<authVars, ruleVars, valVars, raceVars>>
    /\ IF user = NoUser
       THEN /\ rateResp' = Answer(200)
            /\ admitted' = Append(admitted, [user |-> user, at |-> rateNow])
            /\ UNCHANGED userRequests
       ELSE IF Len(recentRequests) >= maxRequests
       THEN /\ rateResp' = Answer(429)
            /\ userRequests' = StoreOnReject(cleaned, userId, recentRequests, rateNow)
            /\ UNCHANGED admitted
       ELSE /\ rateResp' = Answer(200)
            /\ userRequests' = MapSet(cleaned, userId, Append(recentRequests, rateNow))
            /\ admitted' = Append(admitted, [user |-> user, at |-> rateNow])

RateNext ==
    \/ Tick
    \/ \E user \in Principals \cup {NoUser} : UserRateLimit(user)

(* The limiter on its own: the registry and the engine's lists stay as     *)
(* they are.                                                               *)
RateSpec == AuthOnlyInit /\ [][RateNext]_vars

----------------------------------------------------------------------------
(* routes/spamRules under concurrent requests.  A handler runs to its next *)
(* await in one step; the adapter's command runs in the engine between     *)
(* two steps of the handler, and handlers of other requests may run        *)
(* meanwhile.  The adapter passes no timeout to exec, and the handlers set *)
(* none: a handler continues only when its command has exited.             *)

RaceRequests ==
    {[op |-> "remove", user |-> Principal(Owner), mailbox |-> Owner, listType |-> "whitelist",
      entry |-> e] : e \in {E_a, E_mx}}
    \cup {[op |-> "remove", user |-> Principal(Owner), mailbox |-> Other,
           listType |-> "whitelist", entry |-> E_a],
          [op |-> "add", user |-> Principal(Owner), mailbox |-> Owner, listType |-> "whitelist",
           entry |-> E_mx],
          [op |-> "list", user |-> Principal(Owner), mailbox |-> Owner, listType |-> "whitelist",
           entry |-> E_a],
          [op |-> "list", user |-> Principal(Owner), mailbox |-> NotAnEmail,
           listType |-> "whitelist", entry |-> E_a]}

(* The handler's synchronous start, up to await getSpamRules: the status   *)
(* it responds with at once, or 0 when it goes on to the adapter.          *)
StartStatus(r) ==
    IF r.op = "add" /\ AddReadsValidationResultBeforeInit THEN 500
    ELSE IF r.op = "list" /\ ~ListBodyValid(r) THEN 400
    ELSE IF r.op # "list" /\ ~SingleBodyValid(r) THEN 400
    ELSE IF OwnershipDenied(r) THEN 403
    ELSE 0

(* A request arrives and its handler starts. *)
Arrive(slot, r) ==
    /\ inflight[slot].pc = "idle"
    /\ inflight' = [inflight EXCEPT ![slot] =
                       IF StartStatus(r) # 0 THEN IdleSlot(StartStatus(r))
                       ELSE [pc |-> "fetching", req |-> r, existingList |-> <<>>,
                             success |-> FALSE, status |-> 0]]
    /\ UNCHANGED <<rules, prevRules, rresp, logged, lastCall>>
    /\ UNCHANGED <<authVars, valVars, rateVars>>

(* The command of getSpamRules exits (fetchOk: with status 0). *)
FetchExits(slot, fetchOk) ==
    /\ inflight[slot].pc = "fetching"
    /\ inflight' = [inflight EXCEPT ![slot].pc = "fetched",
                                    ![slot].existingList =
                                        getSpamRules(rules, inflight[slot].req.mailbox,
                                                     fetchOk)[inflight[slot].req.listType]]
    /\ UNCHANGED <<rules, prevRules, rresp, logged, lastCall>>
    /\ UNCHANGED <<authVars, valVars, rateVars>>

(* The handler continues after await getSpamRules: List responds; Remove   *)
(* responds 404 or invokes removeSpamRule.                                 *)
AfterFetch(slot) ==
    LET this == inflight[slot]
        r == this.req
    IN
    /\ this.pc = "fetched"
    /\ UNCHANGED <<rules, prevRules, rresp, logged>>
    /\ UNCHANGED <<authVars, valVars, rateVars>>
    /\ IF r.op = "list"
       THEN /\ inflight' = [inflight EXCEPT ![slot] = IdleSlot(200)]
            /\ UNCHANGED lastCall
       ELSE IF ~RemoveFindsEntry(this.existingList, r.entry)
       THEN /\ inflight' = [inflight EXCEPT ![slot] = IdleSlot(404)]
            /\ UNCHANGED lastCall
       ELSE /\ inflight' = [inflight EXCEPT ![slot].pc = "invoked"]
            /\ lastCall' = [fn |-> "removeSpamRule", mailbox |-> r.mailbox,
                            listType |-> r.listType, entry |-> r.entry,
                            present |-> arrayIncludes(rules[r.mailbox][r.listType], r.entry)]

(* The command of removeSpamRule exits (cliOk: with status 0, the engine's *)
(* list changed).                                                          *)
CommandExits(slot, cliOk) ==
    LET r == inflight[slot].req
        result == removeSpamRule(rules, r.mailbox, r.listType, r.entry, cliOk)
    IN
    /\ inflight[slot].pc = "invoked"
    /\ rules' = result.rules
    /\ inflight' = [inflight EXCEPT ![slot].pc = "returned", ![slot].success = result.success]
    /\ UNCHANGED <<prevRules, rresp, logged, lastCall>>
    /\ UNCHANGED <<authVars, valVars, rateVars>>

(* The handler continues after await removeSpamRule and responds. *)
AfterCommand(slot) ==
    /\ inflight[slot].pc = "returned"
    /\ inflight' = [inflight EXCEPT ![slot] =
                       IF ReportsAdapterFailure(inflight[slot]) THEN IdleSlot(500)
                       ELSE IdleSlot(200)]
    /\ UNCHANGED <<rules, prevRules, rresp, logged, lastCall>>
    /\ UNCHANGED <<authVars, valVars, rateVars>>

RaceNext ==
    \/ \E slot \in Slots, r \in RaceRequests : Arrive(slot, r)
    \/ \E slot \in Slots, fetchOk \in BOOLEAN : FetchExits(slot, fetchOk)
    \/ \E slot \in Slots : AfterFetch(slot)
    \/ \E slot \in Slots, cliOk \in BOOLEAN : CommandExits(slot, cliOk)
    \/ \E slot \in Slots : AfterCommand(slot)

RaceSpec == Init /\ [][RaceNext]_vars

(* The event loop runs a continuation once its promise is settled; when a  *)
(* command exits is up to the engine.                                      *)
LiveSpec ==
    /\ Init
    /\ [][RaceNext]_vars
    /\ \A slot \in Slots : WF_vars(AfterFetch(slot)) /\ WF_vars(AfterCommand(slot))

(* The whole service.  The auth routes, the spam-rules routes and the      *)
(* limiter share no state, so the properties of each are checked under its *)
(* own specification.                                                      *)
Next == AuthNext \/ RulesNext \/ RateNext \/ RaceNext

Spec == Init /\ [][Next]_vars

----------------------------------------------------------------------------
(* Properties of the token registry and of token verification *)

Registered(store, token, t) == MapHas(store, token) /\ ~EntryExpired(store[token], t)

(* C2, as stated: a protected request bearing a token that is in the       *)
(* registry written at issuance, unexpired there and by its exp claim, is  *)
(* accepted by authenticateToken with the token's principal attached.      *)
C2_IssuedTokenAccepted ==
    (/\ resp.op = "protected"
     /\ Registered(tokenStore, resp.reqToken, resp.at)
     /\ jwtVerify(resp.reqToken, resp.at))
        => (/\ resp.status = 200
            /\ resp.user = [email |-> resp.reqToken.email, mailbox |-> resp.reqToken.mailbox])

(* C3: no token is accepted by authenticateToken, and none is refreshed,   *)
(* later than 24 hours after the moment it was (last) issued.              *)
C3_NoUseAfterLifetime ==
    (resp.op \in {"protected", "refresh"} /\ resp.status = 200)
        => (/\ resp.reqIssuedAt >= 0
            /\ resp.at <= resp.reqIssuedAt + TokenLifetimeMs)

(* C3 witness: a refresh of a token still in the registry, more than 24    *)
(* hours after it was issued, has been refused.                            *)
C3_Witness ==
    /\ resp.op = "refresh"
    /\ MapHas(prevStore, resp.reqToken)
    /\ resp.at > resp.reqIssuedAt + TokenLifetimeMs
    /\ resp.status = 401

(* C4, as stated: once a token has been logged out, every later protected  *)
(* request bearing it is rejected and every later refresh of it fails.     *)
C4_RevokedTokenRejected ==
    (resp.op \in {"protected", "refresh"} /\ resp.reqToken \in revoked)
        => resp.status \in {401, 403}

(* C5, as stated: after a successful refresh the old token value is no     *)
(* longer in the registry and the newly returned token is.                 *)
C5_OldTokenInvalidated ==
    (resp.op = "refresh" /\ resp.status = 200)
        => (/\ ~MapHas(tokenStore, resp.reqToken)
            /\ MapHas(tokenStore, resp.token))

(* C6: refreshing a registered, unexpired token at time R succeeds and     *)
(* registers a new token with the same email and mailbox, expiring at      *)
(* R + 24h whatever lifetime the old token had left.                       *)
C6_RefreshFreshWindow ==
    (resp.op = "refresh" /\ Registered(prevStore, resp.reqToken, resp.at))
        => (/\ resp.status = 200
            /\ MapHas(tokenStore, resp.token)
            /\ resp.token.email = prevStore[resp.reqToken].email
            /\ resp.token.mailbox = prevStore[resp.reqToken].mailbox
            /\ tokenStore[resp.token].email = prevStore[resp.reqToken].email
            /\ tokenStore[resp.token].mailbox = prevStore[resp.reqToken].mailbox
            /\ tokenStore[resp.token].expiresAt = resp.at + TokenLifetimeMs)

(* C6 witness: a token that had used up part of its lifetime was refreshed. *)
C6_Witness ==
    /\ resp.op = "refresh"
    /\ resp.status = 200
    /\ MapHas(prevStore, resp.reqToken)
    /\ prevStore[resp.reqToken].createdAt < resp.at
    /\ prevStore[resp.reqToken].expiresAt < resp.at + TokenLifetimeMs

(* C7: refresh of a token that is absent from the registry or expired in   *)
(* it answers 401 'Invalid or expired token', issues no token, leaves no   *)
(* entry for that token and leaves every other entry unchanged.            *)
C7_RefreshRejected ==
    (resp.op = "refresh" /\ ~Registered(prevStore, resp.reqToken, resp.at))
        => (/\ resp.status = 401
            /\ resp.message = "Invalid or expired token"
            /\ resp.token = NoToken
            /\ ~MapHas(tokenStore, resp.reqToken)
            /\ DOMAIN tokenStore = (DOMAIN prevStore) \ {resp.reqToken}
            /\ \A k \in DOMAIN tokenStore : tokenStore[k] = prevStore[k])

(* C7 witness: an expired token was presented for refresh while another    *)
(* token was registered.                                                   *)
C7_Witness ==
    /\ resp.op = "refresh"
    /\ MapHas(prevStore, resp.reqToken)
    /\ EntryExpired(prevStore[resp.reqToken], resp.at)
    /\ resp.status = 401
    /\ tokenStore # EmptyMap

(* C8: logout always reports success; it removes the entry of the given    *)
(* token and no other; a further logout of the same token would leave the  *)
(* registry as it is, and a logout of an unregistered token changes        *)
(* nothing.                                                                *)
C8_LogoutIdempotent ==
    resp.op = "logout"
        => (/\ resp.status = 200
            /\ tokenStore = MapDelete(prevStore, resp.reqToken)
            /\ LogoutStore(tokenStore, resp.reqToken) = tokenStore
            /\ ~MapHas(prevStore, resp.reqToken) => tokenStore = prevStore)

(* C8 witness: a second logout of a token that an earlier logout removed,  *)
(* while another token is registered.                                      *)
C8_Witness ==
    /\ resp.op = "logout"
    /\ resp.reqToken \in revoked
    /\ ~MapHas(prevStore, resp.reqToken)
    /\ prevStore # EmptyMap
    /\ resp.status = 200

----------------------------------------------------------------------------
(* Properties of the spam-rules routes *)

(* The request of the last response passed the route's body validation. *)
BodyWellFormed(r) ==
    CASE r.op = "list" -> ListBodyValid(r)
      [] r.op \in {"add", "remove"} -> SingleBodyValid(r)
      [] r.op = "bulk" -> BulkBodyValid(r)
      [] OTHER -> FALSE

(* The number of invocations of the adapter operation fn among calls. *)
CallsOf(calls, fn) == Cardinality({i \in DOMAIN calls : calls[i].fn = fn})

(* C1, as stated: a well-formed List, Add, Remove or Bulk request naming a *)
(* mailbox other than the principal's is answered 403 and invokes no Store *)
(* Adapter operation.                                                      *)
C1_OtherMailboxDenied ==
    (/\ rresp.op \in {"list", "add", "remove", "bulk"}
     /\ BodyWellFormed(rresp)
     /\ rresp.mailbox # rresp.user.mailbox)
        => (/\ rresp.status = 403
            /\ rresp.calls = <<>>)

(* C9, as stated: of two consecutive Adds by the owner on the same mailbox *)
(* and list kind, with valid entries of the same normalized form, the      *)
(* second is answered 409 and leaves the list unchanged, and the adapter's *)
(* add is invoked exactly once over the two.                               *)
C9_SecondAddConflicts ==
    [][(/\ rresp.op = "add"
        /\ rresp'.op = "add"
        /\ rresp.mailbox = rresp.user.mailbox
        /\ rresp'.user = rresp.user
        /\ rresp'.mailbox = rresp.mailbox
        /\ rresp'.listType = rresp.listType
        /\ SingleBodyValid(rresp)
        /\ SingleBodyValid(rresp')
        /\ validateSpamEntry(rresp.entry).isValid
        /\ validateSpamEntry(rresp'.entry).isValid
        /\ normalizeEntry(rresp'.entry) = normalizeEntry(rresp.entry))
            => (/\ rresp'.status = 409
                /\ rules' = rules
                /\ CallsOf(rresp.calls, "addSpamRule")
                      + CallsOf(rresp'.calls, "addSpamRule") = 1)]_vars

(* C10: a Remove whose entry is not in the list that getSpamRules returned *)
(* for the target kind is answered 404, never invokes removeSpamRule and   *)
(* leaves the engine's lists as they were.                                 *)
C10_RemoveAbsentNotFound ==
    (/\ rresp.op = "remove"
     /\ CallsOf(rresp.calls, "getSpamRules") = 1
     /\ ~arrayIncludes(rresp.fetched, rresp.entry))
        => (/\ rresp.status = 404
            /\ rresp.message = "Entry not found in the list"
            /\ CallsOf(rresp.calls, "removeSpamRule") = 0
            /\ rules = prevRules)

(* C10 witness: the owner asked to remove an entry that a non-empty        *)
(* fetched list did not hold, and was answered 404.                        *)
C10_Witness ==
    /\ rresp.op = "remove"
    /\ rresp.mailbox = rresp.user.mailbox
    /\ rresp.fetched # <<>>
    /\ ~arrayIncludes(rresp.fetched, rresp.entry)
    /\ rresp.status = 404
    /\ CallsOf(rresp.calls, "getSpamRules") = 1

(* The last request was made by the owner of the mailbox it names. *)
ByOwner(r) == r.mailbox = r.user.mailbox

(* The calls of the adapter operation fn among calls, in order. *)
CallsTo(calls, fn) == SelectSeq(calls, LAMBDA c : c.fn = fn)

(* C11, as stated: an Add by the owner of a valid entry that the target    *)
(* list does not hold invokes addSpamRule exactly once, with the request's *)
(* mailbox, list kind and entry, and answers 200 reporting that entry when *)
(* the adapter's command succeeded.                                        *)
C11_AddInvokesAdapterOnce ==
    (/\ rresp.op = "add"
     /\ ByOwner(rresp)
     /\ SingleBodyValid(rresp)
     /\ validateSpamEntry(rresp.entry).isValid
     /\ ~arrayIncludes(prevRules[rresp.mailbox][rresp.listType], rresp.entry))
        => LET adds == CallsTo(rresp.calls, "addSpamRule")
           IN /\ Len(adds) = 1
              /\ adds[1].mailbox = rresp.mailbox
              /\ adds[1].listType = rresp.listType
              /\ adds[1].entry = rresp.entry
              /\ adds[1].ok => (/\ rresp.status = 200
                                /\ rresp.results = <<[value |-> rresp.entry,
                                                      listType |-> rresp.listType]>>)

(* C12, as stated: an Add by the owner whose entry fails validateSpamEntry *)
(* is answered 400 with the validator's errors, invokes no adapter         *)
(* operation and leaves the engine's lists as they were.                   *)
C12_InvalidEntryRejected ==
    (/\ rresp.op = "add"
     /\ ByOwner(rresp)
     /\ SingleBodyValid(rresp)
     /\ ~validateSpamEntry(rresp.entry).isValid)
        => (/\ rresp.status = 400
            /\ rresp.errors = validateSpamEntry(rresp.entry).errors
            /\ rresp.calls = <<>>
            /\ rules = prevRules)

(* The adapter operation fn was invoked and reported failure. *)
FailedCall(calls, fn) == \E i \in DOMAIN calls : calls[i].fn = fn /\ ~calls[i].ok

(* The response r surfaces the failure of the adapter operation fn. *)
SurfacesFailure(r, fn, message) ==
    FailedCall(r.calls, fn)
        => (/\ r.status = 500
            /\ r.message = message
            /\ r.errors = <<CliError>>)

(* C13: when removeSpamRule reports failure, Remove answers 500 'Failed to *)
(* remove entry' with the adapter's error; when addSpamRule reports        *)
(* failure, Add answers 500 'Failed to add entry' with the adapter's       *)
(* error, in the response given and in what the handler's statements after *)
(* its first one yield for the same request.                               *)
C13_AdapterFailureSurfaced ==
    /\ rresp.op = "remove" => SurfacesFailure(rresp, "removeSpamRule", "Failed to remove entry")
    /\ rresp.op = "add" =>
          /\ SurfacesFailure(rresp, "addSpamRule", "Failed to add entry")
          /\ rresp.status # 200
          /\ \A fetchOk \in BOOLEAN :
                SurfacesFailure(AddBody(rresp, prevRules, fetchOk, FALSE).resp,
                                "addSpamRule", "Failed to add entry")

(* C13 witness: the owner's Remove of an entry the list holds, whose       *)
(* removeSpamRule command failed.                                          *)
C13_Witness ==
    /\ rresp.op = "remove"
    /\ ByOwner(rresp)
    /\ arrayIncludes(rresp.fetched, rresp.entry)
    /\ FailedCall(rresp.calls, "removeSpamRule")
    /\ rules = prevRules

(* The last request is a well-formed Bulk by the owner of its mailbox. *)
OwnersBulk(r) == r.op = "bulk" /\ ByOwner(r) /\ BulkBodyValid(r)

(* The adapter operation a Bulk operation stands for. *)
AdapterFn(operation) == IF operation.action = "add" THEN "addSpamRule" ELSE "removeSpamRule"

(* The handler's loop run on operations from the lists in store, every     *)
(* adapter command succeeding.                                             *)
LoopOn(operations, store, mailbox) ==
    BulkLoop(operations, [i \in DOMAIN operations |-> TRUE], mailbox,
             [rules |-> store, results |-> <<>>, errors |-> <<>>, calls |-> <<>>])

(* C14, as stated: in the response to a Bulk by the owner every operation  *)
(* contributes one item to results or to errors; an operation with an      *)
(* invalid entry is in errors and caused no adapter call; an operation     *)
(* whose adapter call failed is in errors.                                 *)
C14_BulkAccountsForEveryOperation ==
    OwnersBulk(rresp)
        => (/\ Len(rresp.results) + Len(rresp.errors) = Len(rresp.operations)
            /\ \A i \in DOMAIN rresp.operations :
                  ~validateSpamEntry(rresp.operations[i].entry).isValid
                      => (/\ \E j \in DOMAIN rresp.errors :
                                rresp.errors[j].entry = rresp.operations[i].entry
                          /\ \A k \in DOMAIN rresp.calls :
                                rresp.calls[k].entry # rresp.operations[i].entry)
            /\ \A k \in DOMAIN rresp.calls :
                  ~rresp.calls[k].ok
                      => \E j \in DOMAIN rresp.errors :
                            rresp.errors[j].entry = rresp.calls[k].entry)

(* C15, as stated: a Bulk by the owner is answered 200; the adapter calls  *)
(* are those of the operations with valid entries, in input order, none    *)
(* left out after a failure; results are the successful ones in that order.*)
C15_BulkInInputOrder ==
    OwnersBulk(rresp)
        => LET valid == SelectSeq(rresp.operations,
                                  LAMBDA o : validateSpamEntry(o.entry).isValid)
               succeeded == SelectSeq(rresp.calls, LAMBDA c : c.ok)
           IN /\ rresp.status = 200
              /\ Len(rresp.calls) = Len(valid)
              /\ \A i \in DOMAIN valid :
                    /\ rresp.calls[i].fn = AdapterFn(valid[i])
                    /\ rresp.calls[i].listType = valid[i].listType
                    /\ rresp.calls[i].entry = valid[i].entry
              /\ Len(rresp.results) = Len(succeeded)
              /\ \A i \in DOMAIN succeeded :
                    /\ AdapterFn(rresp.results[i]) = succeeded[i].fn
                    /\ rresp.results[i].entry = succeeded[i].entry

(* The first operation of a Bulk is an add of an entry its list holds, or  *)
(* a remove of an entry its list does not hold.                            *)
FirstIsRedundant(r, store) ==
    /\ r.operations # <<>>
    /\ validateSpamEntry(r.operations[1].entry).isValid
    /\ (r.operations[1].action = "add")
          <=> arrayIncludes(store[r.mailbox][r.operations[1].listType], r.operations[1].entry)

(* The loop, run on the first operation of r alone, invokes no adapter     *)
(* operation and reports the operation in errors.                          *)
LoopSkipsFirst(r, store) ==
    LET done == LoopOn(<<r.operations[1]>>, store, r.mailbox)
    IN done.calls = <<>> /\ Len(done.errors) = 1

(* C16, as stated: a Bulk whose first operation adds an entry the list     *)
(* holds, or removes one it does not hold, invokes no adapter operation    *)
(* for it and reports it in errors, in the response given and in what the  *)
(* handler's loop yields for that operation.                               *)
C16_BulkChecksMembership ==
    (OwnersBulk(rresp) /\ FirstIsRedundant(rresp, prevRules))
        => (/\ \A k \in DOMAIN rresp.calls :
                  rresp.calls[k].entry # rresp.operations[1].entry
            /\ \E j \in DOMAIN rresp.errors :
                  rresp.errors[j].entry = rresp.operations[1].entry
            /\ LoopSkipsFirst(rresp, prevRules))

(* Every entry handed to addSpamRule among calls is in normalized form. *)
AddsNormalized(calls) ==
    \A i \in DOMAIN calls :
        calls[i].fn = "addSpamRule" => calls[i].entry = normalizeEntry(calls[i].entry)

(* Every entry of the engine's lists is in normalized form. *)
StoredNormalized(store) ==
    \A m \in Mailboxes, l \in ListTypes :
        \A i \in DOMAIN store[m][l] : store[m][l][i] = normalizeEntry(store[m][l][i])

SurfacesFetchFailure(r) == FailedCall(r.calls, "getSpamRules") => r.status = 500

(* C18, as stated: when the engine's command behind getSpamRules fails,    *)
(* List, Add and Remove answer 500 rather than work on empty lists.        *)
C18_FetchFailureSurfaced ==
    /\ rresp.op \in {"list", "add", "remove"} => SurfacesFetchFailure(rresp)
    /\ rresp.op = "add" => SurfacesFetchFailure(AddBody(rresp, prevRules, FALSE, TRUE).resp)

----------------------------------------------------------------------------
(* Properties of validateSpamEntry *)

(* Texts that match a pattern of the denylist, one or two per pattern. *)
DenylistInstances ==
    {<<"<", "s", "c", "r", "i", "p", "t">>,
     <<"j", "a", "v", "a", "s", "c", "r", "i", "p", "t", ":">>,
     <<"o", "n", "x", "=">>,
     <<"o", "n", "x", " ", "=">>,
     <<"e", "v", "a", "l", "(">>,
     <<"e", "v", "a", "l", " ", "(">>,
     <<"e", "x", "p", "r", "e", "s", "s", "i", "o", "n", "(">>,
     <<"e", "x", "p", "r", "e", "s", "s", "i", "o", "n", " ", "(">>,
     <<"u", "r", "l", "(">>,
     <<"u", "r", "l", " ", "(">>,
     <<"@", "i", "m", "p", "o", "r", "t">>,
     <<"<", "i", "f", "r", "a", "m", "e">>,
     <<"<", "o", "b", "j", "e", "c", "t">>,
     <<"<", "e", "m", "b", "e", "d">>}

(* The text, trimmed and lowercased, holds an instance of the denylist. *)
HoldsDenylisted(text) ==
    \E d \in DenylistInstances : includes(toLowerCase(trim(text)), d)

DangerousContent == "Entry contains potentially dangerous content"

(* validateSpamEntry has returned for the candidate. *)
Validated == verdict # NoVerdict

(* C19: an input of at most 255 normalized characters whose normalized     *)
(* text holds an instance of a denylist pattern is invalid, with the error *)
(* 'Entry contains potentially dangerous content' first among its errors.  *)
C19_DangerousRejected ==
    (/\ Validated
     /\ HoldsDenylisted(candidate)
     /\ Len(normalizeEntry(candidate)) <= MaxEntryLength)
        => (/\ ~verdict.isValid
            /\ verdict.errors # <<>>
            /\ verdict.errors[1] = DangerousContent)

(* C19 witness: a text that satisfies the grammar of email addresses and   *)
(* holds an instance of the denylist was rejected for the latter alone.    *)
C19_Witness ==
    /\ Validated
    /\ HoldsDenylisted(candidate)
    /\ isValidEmail(normalizeEntry(candidate))
    /\ ~verdict.isValid
    /\ verdict.errors = <<DangerousContent>>

(* C19, as stated: every input whose normalized text holds an instance of  *)
(* a denylist pattern is invalid with the error 'Entry contains            *)
(* potentially dangerous content'.                                         *)
C19_DangerousRejectedAnyLength ==
    (Validated /\ HoldsDenylisted(candidate))
        => (/\ ~verdict.isValid
            /\ \E i \in DOMAIN verdict.errors : verdict.errors[i] = DangerousContent)

(* The candidate, trimmed and lowercased. *)
Folded == toLowerCase(trim(candidate))

(* The candidate, trimmed and lowercased, satisfies the grammar of email  *)
(* addresses and matches no pattern of the denylist.                       *)
CleanEmail == isValidEmail(Folded) /\ ~IsDangerous(Folded)

Unmarked == IF startsWith(Folded, <<"@">>) THEN Tail(Folded) ELSE Folded

(* The candidate is a domain of two or more DNS labels, with or without    *)
(* the marker, that is no IP address and matches no denylist pattern.      *)
CleanDomain ==
    /\ IsLabels(Unmarked)
    /\ includes(Unmarked, <<".">>)
    /\ ~isValidIP(Unmarked)
    /\ ~IsDangerous(Folded)
    /\ Len(Folded) < MaxEntryLength

(* C21, as stated: a domain of valid DNS labels, given with the marker or  *)
(* without it, is accepted and returned lowercased with the marker put     *)
(* before it.                                                              *)
C21_DomainAccepted ==
    (Validated /\ CleanDomain)
        => (/\ verdict.isValid
            /\ verdict.normalized = <<"@">> \o Unmarked)

(* C22, as stated: an IPv4 dotted quad, an IPv6 address of eight groups,   *)
(* '::' and '::1' are accepted and returned as they are, without the       *)
(* marker.                                                                 *)
C22_IPAccepted ==
    (Validated /\ isValidIP(Folded))
        => (/\ verdict.isValid
            /\ verdict.normalized = Folded)

(* The candidate is a wildcard entry: '*.' before a domain of DNS labels,  *)
(* on its own or after a local part and '@'.                               *)
CleanWildcard ==
    /\ isValidWildcard(Folded)
    /\ includes(Folded, <<"*", ".">>)
    /\ ~IsDangerous(Folded)
    /\ Len(Folded) < MaxEntryLength

(* C23, as stated: wildcard entries in bare-domain form and in email form  *)
(* are accepted.                                                           *)
C23_WildcardAccepted ==
    (Validated /\ CleanWildcard) => verdict.isValid

(* C24, as stated: the empty string is rejected with 'Entry cannot be      *)
(* empty', and an input whose normalized text is longer than 255           *)
(* characters with 'Entry is too long (maximum 255 characters)'.           *)
C24_EmptyAndTooLong ==
    Validated
        => (/\ candidate = <<>>
                  => (~verdict.isValid /\ verdict.errors = <<"Entry cannot be empty">>)
            /\ Len(normalizeEntry(candidate)) > MaxEntryLength
                  => (/\ ~verdict.isValid
                      /\ verdict.errors = <<"Entry is too long (maximum 255 characters)">>))

(* C25, as stated: a rejection that is not one of the empty and too-long   *)
(* cases carries exactly one error.                                        *)
C25_SingleError ==
    (Validated /\ verdict.hasNormalized /\ ~verdict.isValid)
        => Len(verdict.errors) = 1

(* C26: normalizeEntry is idempotent, on the candidate and on the          *)
(* normalized text that validateSpamEntry returns.                         *)
C26_NormalizeIdempotent ==
    /\ normalizeEntry(normalizeEntry(candidate)) = normalizeEntry(candidate)
    /\ (Validated /\ verdict.hasNormalized)
          => normalizeEntry(verdict.normalized) = verdict.normalized

(* C26 witness: normalizeEntry put the marker before the candidate, and    *)
(* left the result alone when applied to it again.                         *)
C26_Witness ==
    /\ Validated
    /\ verdict.hasNormalized
    /\ verdict.normalized = <<"@">> \o Folded
    /\ normalizeEntry(verdict.normalized) = verdict.normalized

-----------------------------------------------------------------------------
(* Properties of the two authentication paths and of the rejections of     *)
(* authenticateToken                                                       *)

(* C27: a verify-mailbox request whose email differs from its mailbox is   *)
(* rejected (400) without the IMAP handshake being attempted and without   *)
(* a token being returned or registered.                                   *)
C27_MismatchRejectedUnprobed ==
    (resp.op = "verify-mailbox" /\ resp.reqEmail # resp.reqMailbox)
        => (/\ resp.status = 400
            /\ ~resp.probed
            /\ resp.token = NoToken
            /\ tokenStore = prevStore)

(* C27 witness: a well-formed verify-mailbox request for a mailbox other   *)
(* than its email has been answered 'Email and mailbox must match'.        *)
C27_Witness ==
    /\ resp.op = "verify-mailbox"
    /\ isEmail(resp.reqEmail)
    /\ isEmail(resp.reqMailbox)
    /\ resp.reqEmail # resp.reqMailbox
    /\ resp.message = "Email and mailbox must match"
    /\ ~resp.probed
    /\ tokenStore = prevStore

(* C28, as stated: verify-plesk-session returns and registers a token only *)
(* for a session that the panel holds and that gives access to the         *)
(* requested mailbox.                                                      *)
C28_OnlyConfirmedSessions ==
    (resp.op = "verify-plesk-session" /\ resp.token # NoToken)
        => [sessionId |-> resp.reqSession, mailbox |-> resp.reqMailbox] \in PanelSessions

(* C29, as stated: authenticateToken answers a token that was never        *)
(* issued, a token past its lifetime and a token that was logged out alike,*)
(* with 401 and one message.                                               *)
C29_RejectionsIndistinguishable ==
    (/\ resp.op = "protected"
     /\ resp.reqToken # NoToken
     /\ \/ resp.reqIssuedAt < 0
        \/ resp.reqIssuedAt >= 0 /\ resp.at > resp.reqIssuedAt + TokenLifetimeMs
        \/ resp.reqToken \in revoked)
        => (/\ resp.status = 401
            /\ resp.message = "Token expired or invalid")

-----------------------------------------------------------------------------
(* Properties of the per-user rate limiter *)

(* C30, amended: for each principal, the limiter passes on at most         *)
(* maxRequests requests with a time in any window (t - windowMs, t], the   *)
(* earlier end left out; and a request of                                  *)
(* a principal is answered 429 exactly when maxRequests requests of that   *)
(* principal passed on in the last windowMs lie before it.                 *)
C30_AtMostMaxPerWindow ==
    /\ \A user \in Principals : \A t \in 0..rateNow :
          AdmittedWithin(user, t) <= maxRequests
    /\ (rateResp.op = "request" /\ rateResp.user # NoUser)
          => (rateResp.status = 429 <=> rateResp.recent >= maxRequests)

(* C30, as stated: for each principal, the limiter passes on at most       *)
(* maxRequests requests in any interval of length windowMs, both ends      *)
(* included; and a request is answered 429 exactly when maxRequests passed *)
(* requests of the principal lie in the last windowMs.                     *)
C30_AtMostMaxPerInterval ==
    /\ \A user \in Principals : \A t \in 0..rateNow :
          Cardinality({i \in 1..Len(admitted) :
                          /\ admitted[i].user = user
                          /\ admitted[i].at >= t - windowMs
                          /\ admitted[i].at <= t}) <= maxRequests
    /\ (rateResp.op = "request" /\ rateResp.user # NoUser)
          => (rateResp.status = 429 <=> rateResp.recent >= maxRequests)

(* C30 witness: a principal with a passed request that has left the window *)
(* and maxRequests passed requests inside it has been answered 429.        *)
C30_Witness ==
    /\ rateResp.op = "request"
    /\ rateResp.user \in Principals
    /\ rateResp.status = 429
    /\ rateResp.recent = maxRequests
    /\ \E i \in 1..Len(admitted) :
          /\ admitted[i].user = rateResp.user
          /\ admitted[i].at <= rateResp.at - windowMs

-----------------------------------------------------------------------------
(* Properties of the ownership guard *)

(* C31, as stated: whenever a request is answered with the 403 of an       *)
(* ownership denial, the handler has logged a record that holds the        *)
(* requested mailbox, the authorized mailbox and the calling identity.     *)
C31_DenialsLogged ==
    rresp.status = 403
        => (/\ {"requestedMailbox", "userMailbox", "user"} \subseteq logged.fields
            /\ logged.requestedMailbox = rresp.mailbox
            /\ logged.userMailbox = rresp.user.mailbox
            /\ logged.user = rresp.user.email)

(* C34, as stated: verifyOwnership calls next exactly when the mailbox of  *)
(* the request (body, else query) equals the principal's mailbox, and      *)
(* answers 403 whenever the two differ.                                    *)
C34_GuardAllowsIffEqual ==
    rresp.op = "verifyOwnership"
        => LET body == rresp.listType
               query == rresp.entry[1]
               extracted == IF body # "" THEN body ELSE query
           IN /\ rresp.status = 200 <=> extracted = rresp.user.mailbox
              /\ extracted # rresp.user.mailbox => rresp.status = 403

-----------------------------------------------------------------------------
(* Properties of the principals in the registry and of sessions *)

(* C35: every entry of the token registry has its email equal to its       *)
(* mailbox, and the token that is its key carries the same two values;     *)
(* both authentication paths and refresh keep it so.                       *)
C35_EmailIsMailbox ==
    \A token \in DOMAIN tokenStore :
        /\ tokenStore[token].email = tokenStore[token].mailbox
        /\ token.email = tokenStore[token].email
        /\ token.mailbox = tokenStore[token].mailbox

(* C35 witness: the registry holds an entry for each of two mailboxes, one *)
(* written by verify-plesk-session or verify-mailbox and one written by    *)
(* the refresh that has just succeeded.                                    *)
C35_Witness ==
    /\ resp.op = "refresh"
    /\ resp.status = 200
    /\ MapHas(tokenStore, resp.token)
    /\ tokenStore[resp.token].email = tokenStore[resp.token].mailbox
    /\ \E other \in DOMAIN tokenStore : other.mailbox # resp.token.mailbox

(* C36, as stated: after a refresh of a token has succeeded, a second      *)
(* refresh presenting the same token fails, and the registry holds exactly *)
(* one entry for the session, that of the new token.                       *)
C36_SecondRefreshFails ==
    (resp.op = "refresh" /\ resp.status = 200)
        => (/\ RefreshRejects(tokenStore, resp.reqToken, now)
            /\ Cardinality({t \in DOMAIN tokenStore :
                               t \in {resp.reqToken, resp.token}}) = 1)

(* C37, as stated: the token a successful authentication returns is not    *)
(* the token of a session already in the registry.                         *)
C37_SessionsHaveOwnTokens ==
    (resp.op \in {"verify-plesk-session", "verify-mailbox"} /\ resp.status = 200)
        => ~MapHas(prevStore, resp.token)

(* C38: the limiter counts admitted requests only: the times it holds for  *)
(* a principal inside the window are those of the requests it passed on,   *)
(* whatever was rejected in between; so a request of a principal with      *)
(* fewer than maxRequests admitted requests in the last windowMs is        *)
(* admitted, at the latest windowMs after the oldest request counted.      *)
C38_RejectedNotCounted ==
    /\ \A user \in Principals :
          LET held == IF MapHas(userRequests, user.email) THEN userRequests[user.email]
                      ELSE <<>>
          IN Cardinality({i \in DOMAIN held : held[i] > rateNow - windowMs})
                = AdmittedWithin(user, rateNow)
    /\ (rateResp.op = "request" /\ rateResp.user \in Principals
            /\ rateResp.recent < maxRequests)
          => rateResp.status = 200
    /\ (rateResp.op = "request" /\ rateResp.user \in Principals
            /\ LET before == IF rateResp.status = 200 THEN Len(admitted) - 1
                              ELSE Len(admitted)
               IN \A i \in 1..before :
                     admitted[i].user = rateResp.user
                         => rateResp.at >= admitted[i].at + windowMs)
          => rateResp.status = 200

(* C38 witness: a principal that reached the limit and had two requests    *)
(* rejected has been admitted again exactly windowMs after its oldest      *)
(* counted request.                                                        *)
C38_Witness ==
    /\ rateResp.op = "request"
    /\ rateResp.user \in Principals
    /\ rateResp.status = 200
    /\ \A i \in DOMAIN admitted : admitted[i].user = rateResp.user
    /\ hits - Len(admitted) >= 2
    /\ Len(admitted) = maxRequests + 1
    /\ rateResp.at = admitted[1].at + windowMs

-----------------------------------------------------------------------------
(* Properties of validated entries at the Store Adapter *)

(* C39, as stated: an entry that validateSpamEntry accepts holds no        *)
(* character that is active inside the double-quoted shell argument of the *)
(* adapter's command, neither as given nor as normalized.                  *)
C39_NoShellActiveCharacter ==
    (Validated /\ verdict.isValid)
        => (/\ \A i \in DOMAIN candidate : candidate[i] \notin ShellActive
            /\ \A i \in DOMAIN verdict.normalized : verdict.normalized[i] \notin ShellActive)

-----------------------------------------------------------------------------
(* Properties of the spam-rules routes under concurrent requests *)

(* C32, as stated: every request that is being handled is eventually       *)
(* answered, whether or not the engine's command ever exits.               *)
C32_EveryRequestAnswered ==
    \A slot \in Slots : (inflight[slot].pc # "idle") ~> (inflight[slot].pc = "idle")

(* C33, as stated: however Add and Remove requests interleave, every list  *)
(* stays without duplicates, addSpamRule is never invoked for an entry     *)
(* that is in the list and removeSpamRule never for one that is not.       *)
C33_ChecksHoldAtAdapter ==
    /\ \A m \in Mailboxes, lt \in ListTypes :
          \A i, j \in DOMAIN rules[m][lt] : rules[m][lt][i] = rules[m][lt][j] => i = j
    /\ lastCall.fn = "addSpamRule" => ~lastCall.present
    /\ lastCall.fn = "removeSpamRule" => lastCall.present

====
